---- MODULE Spec2Model ----
(***************************************************************************)
(* State-machine model of src/main.js: the NOAA telemetry refresh          *)
(* (updateSpaceWeather), the render tick (animate), the navigation mode    *)
(* toggle, the camera move flags and the content sequencer.                *)
(*                                                                         *)
(* Number representation.  TLA+ has integers only, so every fractional     *)
(* quantity of the program is held as an integer numerator over a fixed    *)
(* denominator, named where the quantity is declared:                      *)
(*   stormLevel        numerator over StormDen  (1/180)                    *)
(*   radiationLevel    numerator over RadDen    (1/5000), or NaN / -Inf    *)
(*   autopilotTime     hundredths               (+0.01 per tick)           *)
(*   autopilotContentTimer  thousandths         (+0.016 per tick)          *)
(*   positions, sines  ten-thousandths (PosDen)                            *)
(* JavaScript values read from the JSON responses are tagged records       *)
(* (JsNum, JsStr, JsUndefined); JavaScript strings are sequences of        *)
(* one-character strings so that parseFloat and startsWith are computed.   *)
(***************************************************************************)
EXTENDS Integers, Sequences, FiniteSets, TLC

VARIABLES
    noaaData,               \* the telemetry snapshot object (main.js 20-30)
    inflight,               \* updateSpaceWeather calls awaiting Promise.all
    lightBase,              \* lights[l].userData.baseIntensity, over BaseDen
    lightColor,             \* lights.left / lights.right colour, <<r, g, b>>
    isDynamic,
    isAutopilot,
    autopilotTime,
    autopilotContentTimer,
    currentType,
    currentIndex,
    moveState,
    joystickActive,         \* 'active' of setupJoystick: the thumb is held
    cameraPosition,
    controlsTarget,
    heading,                \* horizontal camera direction left by controls.update()
    fx,                     \* scene channels written by the reactive part of animate
    awaited,                \* <<resp>>: the array Promise.all resolved with, about
                            \* to be destructured by the continuation; <<>>: none
    streak,                 \* history: the run of equal calls in progress
    calls                   \* history: which updateSpaceWeather call is which

vars == <<noaaData, inflight, lightBase, lightColor, isDynamic, isAutopilot,
          autopilotTime, autopilotContentTimer, currentType, currentIndex,
          moveState, joystickActive, cameraPosition, controlsTarget, heading, fx, awaited, streak, calls>>

\* the variables that record what happened; no operation of the program
\* reads them
history == <<streak, calls>>

(***************************************************************************)
(* JavaScript values and the conversions the refresh applies to them       *)
(***************************************************************************)
JsNum(n) == [t |-> "number", n |-> n, s |-> <<>>]
JsStr(s) == [t |-> "string", n |-> 0, s |-> s]
JsUndefined == [t |-> "undefined", n |-> 0, s |-> <<>>]

\* A JavaScript number that is finite (numerator v) or NaN.
Fin(v) == [nan |-> FALSE, v |-> v]
NaN == [nan |-> TRUE, v |-> 0]

Min(a, b) == IF a <= b THEN a ELSE b
Max(a, b) == IF a >= b THEN a ELSE b
Abs(a) == IF a < 0 THEN -a ELSE a

Digits == <<"0", "1", "2", "3", "4", "5", "6", "7", "8", "9">>
IsDigit(c) == \E i \in 1..10 : Digits[i] = c
DigitVal(c) == (CHOOSE i \in 1..10 : Digits[i] = c) - 1

\* The value of the longest run of decimal digits that starts s, continuing
\* the value acc read so far.
RECURSIVE ParseDigits(_, _)
ParseDigits(s, acc) ==
    IF s = <<>> \/ ~IsDigit(Head(s)) THEN acc
    ELSE ParseDigits(Tail(s), 10 * acc + DigitVal(Head(s)))

RECURSIVE TrimStart(_)
TrimStart(s) == IF s # <<>> /\ Head(s) = " " THEN TrimStart(Tail(s)) ELSE s

\* parseFloat of a string: leading blanks, an optional sign, then digits;
\* NaN when no digit follows.  (Inputs carry no fraction or exponent.)
ParseFloatStr(str) ==
    LET s == TrimStart(str)
        neg == s # <<>> /\ Head(s) = "-"
        signed == s # <<>> /\ (Head(s) = "-" \/ Head(s) = "+")
        rest == IF signed THEN Tail(s) ELSE s
    IN  IF rest = <<>> \/ ~IsDigit(Head(rest)) THEN NaN
        ELSE Fin((IF neg THEN -1 ELSE 1) * ParseDigits(rest, 0))

\* parseFloat(v): a number converts to itself, undefined reads as the text
\* "undefined" and yields NaN.
parseFloat(v) ==
    CASE v.t = "number" -> Fin(v.n)
      [] v.t = "string" -> ParseFloatStr(v.s)
      [] OTHER -> NaN

\* parseFloat(v) || dflt : NaN and 0 are falsy.
ParseOr(v, dflt) ==
    LET x == parseFloat(v)
    IN  IF x.nan \/ x.v = 0 THEN dflt ELSE x.v

\* v || dflt on a raw JSON value: undefined, 0 and "" are falsy.
Truthy(v) ==
    CASE v.t = "number" -> v.n # 0
      [] v.t = "string" -> v.s # <<>>
      [] OTHER -> FALSE
ValueOr(v, dflt) == IF Truthy(v) THEN v ELSE dflt

\* str.startsWith(c) for a one-character c.
StartsWith(str, c) == str # <<>> /\ Head(str) = c

(***************************************************************************)
(* Query responses.  kind "null": the fetch rejected, the body was not     *)
(* JSON, or it was JSON null (.catch(() => null)); "empty": []; "nullLast":*)
(* an array whose last element is null; "obj": an array whose last element *)
(* is an object with the named fields (a missing field is JsUndefined).    *)
(***************************************************************************)
\* arr[arr.length - 1]?.field
OptField(r, f) == IF r.kind = "obj" THEN r[f] ELSE JsUndefined

\* if (r) ...      : any array, even an empty one, is truthy
Present(r) == r.kind # "null"
\* if (r?.length) ...
NonEmpty(r) == r.kind \in {"nullLast", "obj"}

StormDen == 180
RadDen == 5000
BaseDen == 1800

\* floor(1000 * log10(x)) for x >= 1, taken on x truncated to its leading
\* digit (exact to the thousandth for the flux values of the model).
RECURSIVE Log10Milli(_)
Log10Milli(x) ==
    IF x >= 10 THEN 1000 + Log10Milli(x \div 10)
    ELSE <<0, 301, 477, 602, 698, 778, 845, 903, 954>>[x]

\* Math.log10(x) / 5 over RadDen; log10 of 0 is -Infinity, of a negative NaN.
Log10Over5(x) ==
    CASE x < 0 -> [k |-> "NaN", v |-> 0]
      [] x = 0 -> [k |-> "-Infinity", v |-> 0]
      [] OTHER -> [k |-> "finite", v |-> Log10Milli(x)]

\* flareBoost over RadDen (0.8, 0.3, 0)
FlareBoost(flare) ==
    IF StartsWith(flare, "X") THEN 4000
    ELSE IF StartsWith(flare, "M") THEN 1500 ELSE 0

\* Math.min(1, log10(protonFlux + 1) / 5 + flareBoost)
RadiationLevel(protonFlux, flare) ==
    LET l == Log10Over5(protonFlux + 1)
    IN  IF l.k = "finite"
        THEN [k |-> "finite", v |-> Min(RadDen, l.v + FlareBoost(flare))]
        ELSE l

\* Math.min(1, kp / 9 + (bz < 0 ? Math.abs(bz) / 20 : 0))
StormLevel(kp, bz) ==
    Min(StormDen, 20 * kp + (IF bz < 0 THEN 9 * Abs(bz) ELSE 0))

Derive(d) ==
    [d EXCEPT !.radiationLevel = RadiationLevel(d.protonFlux, d.recentFlare),
              !.stormLevel = StormLevel(d.kp, d.bz)]

(***************************************************************************)
(* updateSpaceWeather: the code after the await (main.js 114-140)          *)
(***************************************************************************)
\* A response tuple names the six results in the order of the destructuring.
Resp(rSSN, rProton, rFlare, rKp, rWind, rElectron) ==
    [rSSN |-> rSSN, rProton |-> rProton, rFlare |-> rFlare,
     rKp |-> rKp, rWind |-> rWind, rElectron |-> rElectron]

\* line 114
ApplySSN(d, r) ==
    IF Present(r)
    THEN [d EXCEPT !.ssn = ValueOr(OptField(r, "predicted_ssn"), JsNum(50))]
    ELSE d

\* line 115
ApplyProton(d, r) ==
    IF Present(r)
    THEN [d EXCEPT !.protonFlux = ParseOr(OptField(r, "flux"), 1)]
    ELSE d

\* a variant of line 116 that lacks the `if (rKp)` guard
ApplyKpUnguarded(d, r) ==
    [d EXCEPT !.kp = ParseOr(OptField(r, "kp_index"), 2)]

\* line 116
ApplyKp(d, r) ==
    IF Present(r)
    THEN [d EXCEPT !.kp = ParseOr(OptField(r, "kp_index"), 2)]
    ELSE d

\* lines 117-120; reading a property of a null last element throws
WindThrows(r) == NonEmpty(r) /\ r.kind = "nullLast"
ApplyWind(d, r) ==
    IF NonEmpty(r)
    THEN [d EXCEPT !.solarWind = ParseOr(r.wind_speed, 400),
                   !.bz = ParseOr(r.bz, 0)]
    ELSE d

\* line 121
ApplyElectron(d, r) ==
    IF Present(r)
    THEN [d EXCEPT !.electronFlux = ParseOr(OptField(r, "flux"), 100)]
    ELSE d

\* lines 122-125; latest.current_class on a null latest throws
FlareThrows(r) == NonEmpty(r) /\ r.kind = "nullLast"
ApplyFlare(d, r) ==
    IF NonEmpty(r)
    THEN [d EXCEPT !.recentFlare =
              IF Truthy(r.current_class) THEN r.current_class.s
              ELSE IF Truthy(r.max_class) THEN r.max_class.s
              ELSE <<"N", "o", "n", "e">>]
    ELSE d

\* lines 132-136: toFixed exists on numbers only
UIThrows(d) == d.ssn.t # "number"

\* lines 114-139 run on snapshot d with responses resp: the snapshot they
\* leave, and whether line 140 is reached (no exception before it).
AfterAwait(d, resp) ==
    LET d3 == ApplyKp(ApplyProton(ApplySSN(d, resp.rSSN), resp.rProton), resp.rKp)
        d5 == ApplyElectron(ApplyWind(d3, resp.rWind), resp.rElectron)
        d7 == Derive(ApplyFlare(d5, resp.rFlare))
    IN  CASE WindThrows(resp.rWind) -> [data |-> d3, done |-> FALSE]
          [] FlareThrows(resp.rFlare) -> [data |-> d5, done |-> FALSE]
          [] OTHER -> [data |-> d7, done |-> ~UIThrows(d7)]

(***************************************************************************)
(* updateLightsFromNOAA and hslToHex (main.js 146-186)                     *)
(***************************************************************************)
\* baseIntensity * stormMod (* 1.2 for the centre light), over BaseDen
BaseIntensity(d) ==
    LET b == (300 + d.ssn.n * 8) * (2 * StormDen + d.stormLevel)
    IN  [left |-> 5 * b, center |-> 6 * b, right |-> 5 * b]

\* hslToHex(h, 100, 50): the three colour bytes f(0), f(8), f(4).  With
\* l = 0.5 and a = 0.5, color = (30 - m) / 60 for m = 30 * max(min(..), -1).
HslByte(h, n) ==
    LET k == (30 * n + h) % 360
        m == Max(Min(Min(k - 90, 270 - k), 30), -30)
    IN  (510 * (30 - m) + 60) \div 120
hslToHex(h) == <<HslByte(h, 0), HslByte(h, 8), HslByte(h, 4)>>

LightColors(d) ==
    LET bzShift == d.bz * 15
        leftHue == Max(0, Min(360, 350 - bzShift))
        rightHue == Max(0, Min(360, 220 + bzShift))
    IN  [left |-> hslToHex(leftHue), right |-> hslToHex(rightHue)]

(***************************************************************************)
(* Camera geometry (main.js 380-394, 397-417, 510)                         *)
(***************************************************************************)
PosDen == 10000
moveSpeed == 2500
PLAYER_HEIGHT == 16000

\* v * m / PosDen, rounded towards zero
Scaled(v, m) ==
    IF v * m >= 0 THEN (v * m) \div PosDen ELSE -((-(v * m)) \div PosDen)

\* Taylor series of sin and cos; x in 1/PosDen radians, |x| below 3 rad.
\* term is the k-th term, next divides by the two following integers.
RECURSIVE Series(_, _, _, _)
Series(x, term, k, acc) ==
    IF term = 0 \/ k > 30 THEN acc
    ELSE Series(x, -(Scaled(Scaled(term, x), x) \div (k * (k + 1))), k + 2,
                acc + term)
Sin(x) == Series(x, x, 2, 0)
Cos(x) == Series(x, PosDen, 1, 0)

\* floor of the square root, by Newton's iteration from above
RECURSIVE Newton(_, _)
Newton(n, x) ==
    LET y == (x + n \div x) \div 2
    IN  IF y >= x THEN x ELSE Newton(n, y)
Isqrt(n) == IF n <= 0 THEN 0 ELSE Newton(n, n)

\* camera.getWorldDirection(dir); dir.y = 0; dir.normalize(): the horizontal
\* unit vector <<x, z>> from the camera towards the orbit target, as left
\* by controls.update() (camera.lookAt(target)).  Lengths are taken in
\* hundredths to stay inside 32-bit arithmetic.
Heading(cam, tgt) ==
    LET dx == (tgt[1] - cam[1]) \div 100
        dz == (tgt[3] - cam[3]) \div 100
        len == Isqrt(dx * dx + dz * dz)
    IN  IF len = 0 THEN <<0, 0>>
        ELSE <<(dx * PosDen) \div len, (dz * PosDen) \div len>>

\* lines 380-387 at autopilotTime = n hundredths
OrbitPosition(n) ==
    LET radius == 8 * PosDen + 3 * Sin(30 * n)
        height == PLAYER_HEIGHT + 2 * Sin(50 * n)
        angle == 15 * n
    IN  <<Scaled(Cos(angle), radius), height,
          Scaled(Sin(angle), radius) + 2 * PosDen>>

\* lines 390-394
OrbitTarget(n) ==
    <<Sin(20 * n) \div 2,
      PLAYER_HEIGHT + PosDen \div 2 + (3 * Cos(30 * n)) \div 10,
      -2 * PosDen + Sin(25 * n) \div 5>>

\* lines 397-414: the vector accumulated from the active move flags
MoveVector(flags, h) ==
    LET dir == <<h[1], 0, h[2]>>
        side == <<h[2], 0, -h[1]>>
        part(on, v, m) == IF on THEN Scaled(v, m) ELSE 0
        axis(i) == part(flags["forward"], dir[i], moveSpeed)
                   + part(flags["backward"], dir[i], -moveSpeed)
                   + part(flags["left"], side[i], moveSpeed)
                   + part(flags["right"], side[i], -moveSpeed)
    IN  <<axis(1),
          axis(2) + (IF flags["up"] THEN moveSpeed ELSE 0)
                  - (IF flags["down"] THEN moveSpeed ELSE 0),
          axis(3)>>

AnyFlag(flags) == \E d \in DOMAIN flags : flags[d]
VecAdd(a, b) == <<a[1] + b[1], a[2] + b[2], a[3] + b[3]>>

(***************************************************************************)
(* The reactive part of animate (main.js 422-508).  Date.now() enters every*)
(* written value through a sine, so a channel is held as the coefficients  *)
(* the tick computed for it together with the instant t of the tick; the   *)
(* angles that only accumulate are held as the amount the last tick added. *)
(*   breathSpeed over 6, breathDepth and dustOpacity over 1800,            *)
(*   ambient over 3600, starStep over 50000, vibration and starFlicker     *)
(*   over RadDen, drift = solarWind - 400, base over BaseDen.              *)
(***************************************************************************)
\* the frame palette of lines 448-468
\* a variant of the chain of lines 448-468 that tests Kp first
PaletteKpFirst(d) ==
    IF d.kp > 5 THEN "9933ff"
    ELSE IF d.bz < -5 THEN "ff3300"
    ELSE IF d.bz > 5 THEN "0066ff"
    ELSE IF d.ssn.t = "number" /\ d.ssn.n > 100 THEN "ffaa00"
    ELSE "003344"

Palette(d) ==
    IF d.bz < -5 THEN "ff3300"
    ELSE IF d.bz > 5 THEN "0066ff"
    ELSE IF d.kp > 5 THEN "9933ff"
    ELSE IF d.ssn.t = "number" /\ d.ssn.n > 100 THEN "ffaa00"
    ELSE "003344"

\* lines 451-467 and 313: the emissive intensity of palette p swings between
\* mid - amp and mid + amp, in hundredths
EmissiveSwing(p) ==
    CASE p = "ff3300" -> [mid |-> 30, amp |-> 20]
      [] p = "0066ff" -> [mid |-> 15, amp |-> 10]
      [] p = "9933ff" -> [mid |-> 40, amp |-> 30]
      [] p = "ffaa00" -> [mid |-> 20, amp |-> 15]
      [] p = "003344" -> [mid |-> 5, amp |-> 5]
      [] OTHER -> [mid |-> 0, amp |-> 0]

\* noaaData.radiationLevel > 0.3 (false for NaN and -Infinity)
Radiating(d) == d.radiationLevel.k = "finite" /\ 10 * d.radiationLevel.v > 3 * RadDen

FlarePulse(d) ==
    IF StartsWith(d.recentFlare, "X") THEN "X"
    ELSE IF StartsWith(d.recentFlare, "M") THEN "M" ELSE "none"

\* the channels as the constructors leave them (lines 50, 195, 228, 295, 310-313)
InitFx ==
    [t |-> 0, breathSpeed |-> 0, breathDepth |-> 0,
     base |-> [left |-> 800 * BaseDen, center |-> 800 * BaseDen,
               right |-> 800 * BaseDen],
     flarePulse |-> "none", emissive |-> "000000", vibration |-> 0,
     drift |-> 0, dustOpacity |-> 540, dustStep |-> 0, starStep |-> 0,
     starPush |-> "none", starFlicker |-> 0, ambient |-> 108]

\* lines 424-504 at instant t
Reactive(d, base, t) ==
    [t |-> t,
     breathSpeed |-> 9 + 2 * d.kp,
     breathDepth |-> 360 + 3 * d.stormLevel,
     base |-> base,
     flarePulse |-> FlarePulse(d),
     emissive |-> Palette(d),
     vibration |-> IF Radiating(d) THEN d.radiationLevel.v ELSE 0,
     drift |-> d.solarWind - 400,
     dustOpacity |-> 360 + 3 * d.stormLevel,
     dustStep |-> d.solarWind - 399,
     starStep |-> 15 + d.ssn.n,
     starPush |-> "sin",
     starFlicker |-> IF Radiating(d) THEN d.radiationLevel.v ELSE 0,
     ambient |-> 108 + d.stormLevel]

\* a variant of the fallback that also puts the ambient light back to the
\* intensity of line 50
FallbackDimmed(f) ==
    [f EXCEPT !.starStep = 10, !.dustStep = 0, !.starPush = "none",
              !.ambient = 108]

\* line 507: only the fallback star rotation runs; the dust rotation and
\* the star drift of lines 487 and 494 get no increment
Fallback(f) == [f EXCEPT !.starStep = 10, !.dustStep = 0, !.starPush = "none"]

(***************************************************************************)
(* Bounds of the model and the inputs drawn from them                      *)
(***************************************************************************)
\* refreshes that may be awaiting their queries at once
MaxInflight == 2
\* autopilot ticks followed after one entry into Autopilot
MaxAutopilotTicks == 502
\* the same, where the move flags are followed too
MaxFlightTicks == 2
\* manual movement keeps the orbit target within this many steps of moveSpeed
\* (and half a step, for the autopilot's drift) of its home position
MaxSteps == 1

\* instants at which a tick may read Date.now()
Times == {1, 2}
\* pointer offsets from the joystick's grab point
Offsets == {-6, 0, 6}

Null == [kind |-> "null"]
Empty == [kind |-> "empty"]
NullLast == [kind |-> "nullLast"]

\* What each query may resolve with: a failed fetch (Null), a well-formed
\* answer, and malformed ones (an empty array, a missing field, unparsable
\* text, a null last element).  Numbers arrive as numbers or as text.
Garbage == JsStr(<<"n", "/", "a">>)
Obj1(f, v) == [kind |-> "obj"] @@ (f :> v)
SsnResponses ==
    {Null, Empty, Obj1("predicted_ssn", JsNum(150))}
ProtonResponses ==
    {Null, Obj1("flux", JsNum(1000000000))}
KpResponses ==
    {Null, Obj1("kp_index", Garbage), Obj1("kp_index", JsNum(9)),
     Obj1("kp_index", JsStr(<<"-", "3">>))}
WindResponses ==
    {Null, NullLast,
     [kind |-> "obj", wind_speed |-> JsNum(700), bz |-> JsNum(-100)]}
ElectronResponses ==
    {Null, Obj1("flux", JsNum(500))}
FlareResponses ==
    {Null,
     [kind |-> "obj", current_class |-> JsStr(<<"X", "5">>), max_class |-> JsUndefined]}

Responses ==
    {Resp(a, b, c, d, e, f) :
        a \in SsnResponses, b \in ProtonResponses, c \in FlareResponses,
        d \in KpResponses, e \in WindResponses, f \in ElectronResponses}

(***************************************************************************)
(* Initial state: the module-level declarations and init() (main.js 4-101) *)
(***************************************************************************)
InitNoaa ==
    [ssn |-> JsNum(50), kp |-> 2, bz |-> 0, solarWind |-> 400,
     protonFlux |-> 1, electronFlux |-> 100, stormLevel |-> 0,
     radiationLevel |-> [k |-> "finite", v |-> 0],
     recentFlare |-> <<"N", "o", "n", "e">>]

Dirs == {"forward", "backward", "left", "right", "up", "down"}

Init ==
    /\ noaaData = InitNoaa
    /\ inflight = 1
    /\ awaited = <<>>
    /\ lightBase = [left |-> 800 * BaseDen, center |-> 800 * BaseDen,
                    right |-> 800 * BaseDen]
    /\ lightColor = [left |-> <<255, 51, 102>>, right |-> <<51, 102, 255>>]
    /\ isDynamic = TRUE
    /\ isAutopilot = FALSE
    /\ autopilotTime = 0
    /\ autopilotContentTimer = 0
    /\ currentType = "jpg"
    /\ currentIndex = 1
    /\ moveState = [d \in Dirs |-> FALSE]
    /\ joystickActive = FALSE
    /\ cameraPosition = <<0, PLAYER_HEIGHT, 15 * PosDen>>
    /\ controlsTarget = <<0, PLAYER_HEIGHT + PosDen \div 2, -2 * PosDen>>
    /\ heading = Heading(<<0, PLAYER_HEIGHT, 15 * PosDen>>,
                         <<0, PLAYER_HEIGHT + PosDen \div 2, -2 * PosDen>>)
    /\ fx = InitFx
    /\ streak = [op |-> "none", start |-> [index |-> 1, type |-> "jpg"],
                 len |-> 0, flips |-> 0]
    /\ calls = [started |-> 1, pending |-> {1}, settling |-> 0, written |-> 0]

navVars == <<isAutopilot, autopilotTime, autopilotContentTimer, currentType,
             currentIndex, moveState, joystickActive, cameraPosition,
             controlsTarget, heading>>

telemetryVars == <<noaaData, inflight, awaited, lightBase, lightColor>>

(***************************************************************************)
(* UI entry points (main.js 233-249, 280-282, 338-343, 349-358)            *)
(***************************************************************************)
\* a variant of toggleAutopilot that lacks the reset of lines 238-241
toggleAutopilotKeepClocks ==
    /\ awaited = <<>>
    /\ isAutopilot' = ~isAutopilot
    /\ UNCHANGED <<autopilotTime, autopilotContentTimer>>
    /\ UNCHANGED <<currentType, currentIndex, moveState, joystickActive,
                   cameraPosition, controlsTarget, heading, isDynamic, fx>>
    /\ UNCHANGED telemetryVars

\* a variant of toggleAutopilot that also puts the camera back as
\* resetPosition does
toggleAutopilotHoming ==
    /\ awaited = <<>>
    /\ isAutopilot' = ~isAutopilot
    /\ IF isAutopilot'
       THEN autopilotTime' = 0 /\ autopilotContentTimer' = 0
       ELSE UNCHANGED <<autopilotTime, autopilotContentTimer>>
    /\ cameraPosition' = <<0, PLAYER_HEIGHT + PosDen \div 2, 8 * PosDen>>
    /\ controlsTarget' = <<0, PLAYER_HEIGHT + PosDen \div 2, -2 * PosDen>>
    /\ UNCHANGED <<currentType, currentIndex, moveState, joystickActive,
                   heading, isDynamic, fx>>
    /\ UNCHANGED telemetryVars

toggleAutopilot ==
    /\ awaited = <<>>
    /\ isAutopilot' = ~isAutopilot
    /\ IF isAutopilot'
       THEN autopilotTime' = 0 /\ autopilotContentTimer' = 0
       ELSE UNCHANGED <<autopilotTime, autopilotContentTimer>>
    /\ UNCHANGED <<currentType, currentIndex, moveState, joystickActive,
                   cameraPosition, controlsTarget, heading, isDynamic, fx>>
    /\ UNCHANGED telemetryVars

\* a variant of toggleFX that applies the fallback at once when it disables
toggleFXEager ==
    /\ awaited = <<>>
    /\ isDynamic' = ~isDynamic
    /\ fx' = IF isDynamic' THEN fx ELSE Fallback(fx)
    /\ UNCHANGED navVars
    /\ UNCHANGED telemetryVars

toggleFX ==
    /\ awaited = <<>>
    /\ isDynamic' = ~isDynamic
    /\ UNCHANGED fx
    /\ UNCHANGED navVars
    /\ UNCHANGED telemetryVars

Types == {"jpg", "gif"}
Flip(type) == IF type = "jpg" THEN "gif" ELSE "jpg"

\* a variant of nextContent that wraps the index and keeps the type
NextOfSameType(c) ==
    IF c.index + 1 > 13 THEN [index |-> 1, type |-> c.type]
    ELSE [index |-> c.index + 1, type |-> c.type]

\* the index and type nextContent leaves
NextOf(c) ==
    IF c.index + 1 > 13 THEN [index |-> 1, type |-> Flip(c.type)]
    ELSE [index |-> c.index + 1, type |-> c.type]

\* a variant of prevContent that wraps the index and keeps the type
PrevOfKeepType(c) ==
    IF c.index - 1 < 1 THEN [index |-> 13, type |-> c.type]
    ELSE [index |-> c.index - 1, type |-> c.type]

\* a variant of prevContent that changes the type one step late, at 2 -> 1
PrevOfLateFlip(c) ==
    IF c.index - 1 < 1 THEN [index |-> 13, type |-> c.type]
    ELSE [index |-> c.index - 1,
          type |-> IF c.index = 2 THEN Flip(c.type) ELSE c.type]

\* the index and type prevContent leaves
PrevOf(c) ==
    IF c.index - 1 < 1 THEN [index |-> 13, type |-> Flip(c.type)]
    ELSE [index |-> c.index - 1, type |-> c.type]

Content == [index |-> currentIndex, type |-> currentType]

contentFrame == <<isAutopilot, autopilotTime, autopilotContentTimer, moveState,
                  joystickActive, cameraPosition, controlsTarget, heading,
                  isDynamic, fx>>

nextContent ==
    /\ awaited = <<>>
    /\ currentIndex' = NextOf(Content).index
    /\ currentType' = NextOf(Content).type
    /\ UNCHANGED contentFrame
    /\ UNCHANGED telemetryVars

prevContent ==
    /\ awaited = <<>>
    /\ currentIndex' = PrevOf(Content).index
    /\ currentType' = PrevOf(Content).type
    /\ UNCHANGED contentFrame
    /\ UNCHANGED telemetryVars

\* Math.floor(Math.random() * 13) + 1 is any of 1..13; the second draw
\* picks the type
randomContent(i, type) ==
    /\ awaited = <<>>
    /\ currentIndex' = i
    /\ currentType' = type
    /\ UNCHANGED contentFrame
    /\ UNCHANGED telemetryVars

moveFrame == <<isAutopilot, autopilotTime, autopilotContentTimer, currentType,
               currentIndex, cameraPosition, controlsTarget, heading,
               isDynamic, fx>>

moveCamera(dir) ==
    /\ awaited = <<>>
    /\ moveState' = [moveState EXCEPT ![dir] = TRUE]
    /\ UNCHANGED joystickActive
    /\ UNCHANGED moveFrame
    /\ UNCHANGED telemetryVars

stopCamera ==
    /\ awaited = <<>>
    /\ moveState' = [d \in DOMAIN moveState |-> FALSE]
    /\ UNCHANGED joystickActive
    /\ UNCHANGED moveFrame
    /\ UNCHANGED telemetryVars

resetPosition ==
    /\ awaited = <<>>
    /\ cameraPosition' = <<0, PLAYER_HEIGHT + PosDen \div 2, 8 * PosDen>>
    /\ controlsTarget' = <<0, PLAYER_HEIGHT + PosDen \div 2, -2 * PosDen>>
    /\ UNCHANGED <<isAutopilot, autopilotTime, autopilotContentTimer,
                   currentType, currentIndex, moveState, joystickActive,
                   heading, isDynamic, fx>>
    /\ UNCHANGED telemetryVars

\* mousedown on the joystick thumb
joystickDown ==
    /\ awaited = <<>>
    /\ joystickActive' = TRUE
    /\ UNCHANGED moveState
    /\ UNCHANGED moveFrame
    /\ UNCHANGED telemetryVars

\* mousemove on the window, the pointer dx, dy away from the grab point
joystickMove(dx, dy) ==
    /\ awaited = <<>>
    /\ joystickActive
    /\ moveState' = [moveState EXCEPT !["forward"] = dy < -5,
                                      !["backward"] = dy > 5,
                                      !["left"] = dx < -5,
                                      !["right"] = dx > 5]
    /\ UNCHANGED joystickActive
    /\ UNCHANGED moveFrame
    /\ UNCHANGED telemetryVars

\* mouseup on the window
joystickUp ==
    /\ awaited = <<>>
    /\ joystickActive' = FALSE
    /\ moveState' = [d \in DOMAIN moveState |-> FALSE]
    /\ UNCHANGED moveFrame
    /\ UNCHANGED telemetryVars

(***************************************************************************)
(* animate: one render tick (main.js 364-512)                              *)
(***************************************************************************)
HomeTarget == <<0, PLAYER_HEIGHT + PosDen \div 2, -2 * PosDen>>
InRoom(tgt) ==
    \A i \in 1..3 : Abs(tgt[i] - HomeTarget[i]) <= MaxSteps * moveSpeed + moveSpeed \div 2

\* a variant of the autopilot branch whose random draw lacks the `+ 1` of
\* line 282
AutopilotStepZeroBased ==
    /\ autopilotTime' = autopilotTime + 1
    /\ IF autopilotContentTimer + 16 >= 8000
       THEN /\ currentIndex' \in 0..12
            /\ currentType' \in Types
            /\ autopilotContentTimer' = 0
       ELSE /\ autopilotContentTimer' = autopilotContentTimer + 16
            /\ UNCHANGED <<currentIndex, currentType>>
    /\ cameraPosition' = OrbitPosition(autopilotTime')
    /\ controlsTarget' = OrbitTarget(autopilotTime')

\* a variant of the autopilot branch that lacks the reset of line 376
AutopilotStepNoReset ==
    /\ autopilotTime' = autopilotTime + 1
    /\ autopilotContentTimer' = autopilotContentTimer + 16
    /\ IF autopilotContentTimer' >= 8000
       THEN currentIndex' \in 1..13 /\ currentType' \in Types
       ELSE UNCHANGED <<currentIndex, currentType>>
    /\ cameraPosition' = OrbitPosition(autopilotTime')
    /\ controlsTarget' = OrbitTarget(autopilotTime')

\* lines 369-394; when the content timer fires randomContent draws any index
\* of 1..13 and either type
AutopilotStep ==
    /\ autopilotTime' = autopilotTime + 1
    /\ IF autopilotContentTimer + 16 >= 8000
       THEN /\ currentIndex' \in 1..13
            /\ currentType' \in Types
            /\ autopilotContentTimer' = 0
       ELSE /\ autopilotContentTimer' = autopilotContentTimer + 16
            /\ UNCHANGED <<currentIndex, currentType>>
    /\ cameraPosition' = OrbitPosition(autopilotTime')
    /\ controlsTarget' = OrbitTarget(autopilotTime')

\* a variant of lines 396-418 in which the flight clock of line 370 runs in
\* Manual mode too
ManualStepClockRuns ==
    /\ IF AnyFlag(moveState)
       THEN /\ cameraPosition' = VecAdd(cameraPosition, MoveVector(moveState, heading))
            /\ controlsTarget' = VecAdd(controlsTarget, MoveVector(moveState, heading))
       ELSE UNCHANGED <<cameraPosition, controlsTarget>>
    /\ autopilotTime' = autopilotTime + 1
    /\ UNCHANGED <<autopilotContentTimer, currentIndex, currentType>>

\* a variant of lines 396-418 that lacks controls.target.add of line 417
ManualStepCameraOnly ==
    /\ IF AnyFlag(moveState)
       THEN cameraPosition' = VecAdd(cameraPosition, MoveVector(moveState, heading))
       ELSE UNCHANGED cameraPosition
    /\ UNCHANGED <<controlsTarget, autopilotTime, autopilotContentTimer,
                   currentIndex, currentType>>

\* lines 396-418
ManualStep ==
    /\ IF AnyFlag(moveState)
       THEN /\ cameraPosition' = VecAdd(cameraPosition, MoveVector(moveState, heading))
            /\ controlsTarget' = VecAdd(controlsTarget, MoveVector(moveState, heading))
       ELSE UNCHANGED <<cameraPosition, controlsTarget>>
    /\ UNCHANGED <<autopilotTime, autopilotContentTimer, currentIndex, currentType>>

\* One frame at instant t; horizon bounds the autopilot ticks followed.
animate(t, horizon) ==
    /\ awaited = <<>>
    /\ IF isAutopilot
       THEN autopilotTime < horizon /\ AutopilotStep
       ELSE ManualStep /\ InRoom(controlsTarget')
    /\ fx' = IF isDynamic THEN Reactive(noaaData, lightBase, t) ELSE Fallback(fx)
    /\ heading' = Heading(cameraPosition', controlsTarget')
    /\ UNCHANGED <<isAutopilot, moveState, joystickActive, isDynamic>>
    /\ UNCHANGED telemetryVars

(***************************************************************************)
(* The telemetry refresh                                                   *)
(***************************************************************************)
\* setInterval(updateSpaceWeather, 60000): the call runs up to the await,
\* issuing the six fetches.
updateSpaceWeather ==
    /\ awaited = <<>>
    /\ inflight < MaxInflight
    /\ inflight' = inflight + 1
    /\ UNCHANGED <<noaaData, awaited, lightBase, lightColor, isDynamic, fx>>
    /\ UNCHANGED navVars

\* The six fetch promises of one waiting call have all settled: Promise.all
\* resolves with resp and the continuation is queued as a microtask.
PromiseAllSettled(resp) ==
    /\ awaited = <<>>
    /\ inflight > 0
    /\ awaited' = <<resp>>
    /\ UNCHANGED <<noaaData, inflight, lightBase, lightColor, isDynamic, fx>>
    /\ UNCHANGED navVars

\* The continuation after the await (lines 114-143), run to its end or to
\* the exception the catch swallows.
updateSpaceWeatherResume ==
    /\ awaited # <<>>
    /\ LET r == AfterAwait(noaaData, awaited[1])
       IN  /\ noaaData' = r.data
           /\ IF r.done
              THEN /\ lightBase' = BaseIntensity(r.data)
                   /\ lightColor' = LightColors(r.data)
              ELSE UNCHANGED <<lightBase, lightColor>>
    /\ awaited' = <<>>
    /\ inflight' = inflight - 1
    /\ UNCHANGED <<isDynamic, fx>>
    /\ UNCHANGED navVars

(***************************************************************************)
(* Specifications.  Each follows the operations of one part of the program;*)
(* the variables of the other parts keep their initial values.             *)
(***************************************************************************)
\* the refresh alone
NextTelemetry ==
    \/ updateSpaceWeather /\ UNCHANGED history
    \/ \E resp \in Responses : PromiseAllSettled(resp) /\ UNCHANGED history
    \/ updateSpaceWeatherResume /\ UNCHANGED history

SpecTelemetry == Init /\ [][NextTelemetry]_vars

\* the refresh interleaved with render ticks in both modes, on the Kp and
\* wind queries
RenderResponses ==
    {Resp(Null, Null, Null, d, e, Null) :
        d \in {Null, Obj1("kp_index", JsNum(9))}, e \in WindResponses}

NextRender ==
    \/ updateSpaceWeather /\ UNCHANGED history
    \/ \E resp \in RenderResponses : PromiseAllSettled(resp) /\ UNCHANGED history
    \/ updateSpaceWeatherResume /\ UNCHANGED history
    \/ toggleFX /\ UNCHANGED history
    \/ toggleAutopilot /\ UNCHANGED history
    \/ \E t \in Times : animate(t, MaxFlightTicks) /\ UNCHANGED history

SpecRender == Init /\ [][NextRender]_vars

\* the refresh and the enabled render tick, on the sunspot, Kp and wind
\* queries: snapshots on every branch of the palette chain
PaletteResponses ==
    {Resp(a, Null, Null, d, e, Null) :
        a \in {Null, Obj1("predicted_ssn", JsNum(150))},
        d \in {Null, Obj1("kp_index", JsNum(9)),
                     Obj1("kp_index", JsStr(<<"-", "9">>))},
        e \in {Null,
               [kind |-> "obj", wind_speed |-> JsNum(700), bz |-> JsNum(-100)],
               [kind |-> "obj", wind_speed |-> JsNum(300), bz |-> JsNum(10)]}}

NextPalette ==
    \/ updateSpaceWeather /\ UNCHANGED history
    \/ \E resp \in PaletteResponses : PromiseAllSettled(resp) /\ UNCHANGED history
    \/ updateSpaceWeatherResume /\ UNCHANGED history
    \/ \E t \in Times : animate(t, MaxFlightTicks) /\ UNCHANGED history

SpecPalette == Init /\ [][NextPalette]_vars

\* The animation toggle among refreshes and ticks, with the run of toggles
\* in succession recorded: the flag it started from and its length (a run
\* of 2 starts anew); a tick ends the run.
NextFX ==
    \/ updateSpaceWeather /\ UNCHANGED history
    \/ \E resp \in RenderResponses : PromiseAllSettled(resp) /\ UNCHANGED history
    \/ updateSpaceWeatherResume /\ UNCHANGED history
    \/ /\ toggleFX
       /\ streak' = IF streak.op = "toggleFX" /\ streak.len < 2
                    THEN [streak EXCEPT !.len = @ + 1]
                    ELSE [op |-> "toggleFX", start |-> [dynamic |-> isDynamic],
                          len |-> 1, flips |-> 0]
       /\ UNCHANGED calls
    \/ \E t \in Times :
           /\ animate(t, MaxFlightTicks)
           /\ streak' = [op |-> "none", start |-> Content, len |-> 0,
                         flips |-> 0]
           /\ UNCHANGED calls

SpecFX == Init /\ [][NextFX]_vars

\* Overlapping refreshes, with the calls told apart: they are numbered in
\* the order the timer starts them; pending are the calls awaiting their
\* queries, settling is the call whose continuation is queued and written
\* the latest-started call whose continuation has run.
MaxCalls == 3

NextOverlap ==
    \/ /\ updateSpaceWeather
       /\ calls.started < MaxCalls
       /\ calls' = [calls EXCEPT !.started = @ + 1,
                                 !.pending = @ \cup {calls.started + 1}]
       /\ UNCHANGED streak
    \/ \E resp \in RenderResponses, id \in calls.pending :
           /\ PromiseAllSettled(resp)
           /\ calls' = [calls EXCEPT !.settling = id, !.pending = @ \ {id}]
           /\ UNCHANGED streak
    \/ /\ updateSpaceWeatherResume
       /\ calls' = [calls EXCEPT !.settling = 0,
                                 !.written = Max(@, calls.settling)]
       /\ UNCHANGED streak

SpecOverlap == Init /\ [][NextOverlap]_vars

\* the content sequencer and the autopilot clock
NextContent ==
    \/ nextContent /\ UNCHANGED history
    \/ prevContent /\ UNCHANGED history
    \/ \E i \in 1..13, type \in Types : randomContent(i, type) /\ UNCHANGED history
    \/ toggleAutopilot /\ UNCHANGED history
    \/ \E t \in Times : animate(t, MaxAutopilotTicks) /\ UNCHANGED history

SpecContent == Init /\ [][NextContent]_vars

\* The autopilot clocks alone.  requestAnimationFrame (line 365) runs a frame
\* again and again: a flight whose next frame stays possible gets it.  This
\* is the weak fairness of the frame, with the condition under which a
\* frame of a flight can run written out.
ClockTick == \E t \in Times : animate(t, MaxAutopilotTicks) /\ UNCHANGED history

NextClock ==
    \/ toggleAutopilot /\ UNCHANGED history
    \/ ClockTick

FlightTickEnabled ==
    awaited = <<>> /\ isAutopilot /\ autopilotTime < MaxAutopilotTicks

SpecClock ==
    /\ Init
    /\ [][NextClock]_vars
    /\ ([]<>(~FlightTickEnabled) \/ []<><<ClockTick>>_vars)

\* The sequencer's three calls, with the run of equal calls recorded: the
\* content it started from, its length (a run of 13 starts anew) and the
\* number of type changes in it.
Extend(op) ==
    IF streak.op = op /\ streak.len < 13
    THEN [streak EXCEPT !.len = @ + 1,
                        !.flips = @ + (IF currentType' # currentType THEN 1 ELSE 0)]
    ELSE [op |-> op, start |-> Content, len |-> 1,
          flips |-> IF currentType' # currentType THEN 1 ELSE 0]

NextSequencer ==
    \/ nextContent /\ streak' = Extend("next") /\ UNCHANGED calls
    \/ prevContent /\ streak' = Extend("prev") /\ UNCHANGED calls
    \/ \E i \in 1..13, type \in Types :
           /\ randomContent(i, type)
           /\ streak' = [op |-> "none", start |-> [index |-> i, type |-> type],
                         len |-> 0, flips |-> 0]
           /\ UNCHANGED calls

SpecSequencer == Init /\ [][NextSequencer]_vars

\* The sequencer's three calls, with pairs of opposite calls recorded: a
\* single next or prev is recorded with the content it started from, and an
\* opposite call right after it makes the pair, which keeps that content.
Opposite(op) == IF op = "next" THEN "prev" ELSE "next"

Undo(op) ==
    LET flip == IF currentType' # currentType THEN 1 ELSE 0
    IN  IF streak.op = Opposite(op) /\ streak.len = 1
        THEN [op |-> IF op = "prev" THEN "next,prev" ELSE "prev,next",
              start |-> streak.start, len |-> 2, flips |-> streak.flips + flip]
        ELSE [op |-> op, start |-> Content, len |-> 1, flips |-> flip]

NextInverse ==
    \/ nextContent /\ streak' = Undo("next") /\ UNCHANGED calls
    \/ prevContent /\ streak' = Undo("prev") /\ UNCHANGED calls
    \/ \E i \in 1..13, type \in Types :
           /\ randomContent(i, type)
           /\ streak' = [op |-> "none", start |-> [index |-> i, type |-> type],
                         len |-> 0, flips |-> 0]
           /\ UNCHANGED calls

SpecInverse == Init /\ [][NextInverse]_vars

\* The render tick in both modes over a whole content period (some 8 s, so
\* the 60 s timer starts no further refresh), with the refresh started at
\* load storing a new Kp: what a frame writes besides the scene.
TickResponses == {Resp(Null, Null, Null, Obj1("kp_index", JsNum(9)), Null, Null)}

Tick == \E t \in Times : animate(t, MaxAutopilotTicks)

NextTick ==
    \/ \E resp \in TickResponses : PromiseAllSettled(resp) /\ UNCHANGED history
    \/ updateSpaceWeatherResume /\ UNCHANGED history
    \/ toggleAutopilot /\ UNCHANGED history
    \/ Tick /\ UNCHANGED history

SpecTick == Init /\ [][NextTick]_vars

\* navigation: the mode toggle, the move flags and the camera
NextNav ==
    \/ toggleAutopilot /\ UNCHANGED history
    \/ \E dir \in Dirs : moveCamera(dir) /\ UNCHANGED history
    \/ stopCamera /\ UNCHANGED history
    \/ \E t \in Times : animate(t, MaxFlightTicks) /\ UNCHANGED history

SpecNav == Init /\ [][NextNav]_vars

\* manual flight: the move buttons, the joystick and the camera reset
NextMove ==
    \/ \E dir \in Dirs : moveCamera(dir) /\ UNCHANGED history
    \/ stopCamera /\ UNCHANGED history
    \/ resetPosition /\ UNCHANGED history
    \/ joystickDown /\ UNCHANGED history
    \/ \E dx \in Offsets, dy \in Offsets : joystickMove(dx, dy) /\ UNCHANGED history
    \/ joystickUp /\ UNCHANGED history
    \/ \E t \in Times : animate(t, MaxFlightTicks) /\ UNCHANGED history

SpecMove == Init /\ [][NextMove]_vars


(***************************************************************************)
(* Properties of the telemetry refresh (SpecTelemetry).  In a state with   *)
(* awaited # <<>> the only step is the continuation of updateSpaceWeather, *)
(* so awaited[1] is the array it destructures and noaaData, noaaData' are  *)
(* the snapshot before and after that refresh.                             *)
(***************************************************************************)

\* C1: when a query of a refresh fails or returns no data (its result is
\* null), the raw field(s) that query feeds keep the value they had before
\* the refresh, whatever the other five queries returned.
C1_FailedQueryKeepsRawField ==
    [][awaited # <<>> =>
        LET r == awaited[1]
        IN  /\ r.rSSN.kind = "null" => noaaData'.ssn = noaaData.ssn
            /\ r.rProton.kind = "null" => noaaData'.protonFlux = noaaData.protonFlux
            /\ r.rKp.kind = "null" => noaaData'.kp = noaaData.kp
            /\ r.rWind.kind = "null" =>
                   /\ noaaData'.solarWind = noaaData.solarWind
                   /\ noaaData'.bz = noaaData.bz
            /\ r.rElectron.kind = "null" =>
                   noaaData'.electronFlux = noaaData.electronFlux
            /\ r.rFlare.kind = "null" =>
                   noaaData'.recentFlare = noaaData.recentFlare]_vars

\* a refresh about to resume whose Kp query failed while the sunspot and
\* wind queries delivered, on a snapshot whose Kp came from an earlier refresh
C1_Witness ==
    /\ awaited # <<>>
    /\ awaited[1].rKp.kind = "null"
    /\ awaited[1].rSSN.kind = "obj"
    /\ awaited[1].rWind.kind = "obj"
    /\ noaaData.kp = 9
    /\ noaaData.solarWind = 400

\* the value a response offers for field f cannot be read as a number
Malformed(r, f) == r.kind # "null" /\ parseFloat(OptField(r, f)).nan

\* C2: when a query delivers a value that cannot be read as a number, the
\* numeric raw field keeps the value it had before the refresh (it is not
\* reset to its default).
C2_MalformedKeepsPrevious ==
    [][awaited # <<>> =>
        LET r == awaited[1]
        IN  /\ Malformed(r.rSSN, "predicted_ssn") => noaaData'.ssn = noaaData.ssn
            /\ Malformed(r.rProton, "flux") =>
                   noaaData'.protonFlux = noaaData.protonFlux
            /\ Malformed(r.rKp, "kp_index") => noaaData'.kp = noaaData.kp
            /\ Malformed(r.rWind, "wind_speed") =>
                   noaaData'.solarWind = noaaData.solarWind
            /\ Malformed(r.rWind, "bz") => noaaData'.bz = noaaData.bz
            /\ Malformed(r.rElectron, "flux") =>
                   noaaData'.electronFlux = noaaData.electronFlux]_vars

\* C3: after any refresh stormLevel and radiationLevel lie in [0, 1],
\* whatever the raw values were, negative ones included.
C3_DerivedInUnitInterval ==
    /\ noaaData.stormLevel \in 0..StormDen
    /\ noaaData.radiationLevel.k = "finite"
    /\ noaaData.radiationLevel.v \in 0..RadDen

AllFailed(resp) ==
    /\ resp.rSSN.kind = "null" /\ resp.rProton.kind = "null"
    /\ resp.rFlare.kind = "null" /\ resp.rKp.kind = "null"
    /\ resp.rWind.kind = "null" /\ resp.rElectron.kind = "null"

\* C4: a refresh in which all six queries fail leaves the whole snapshot,
\* raw and derived fields, as it was; this covers the first refresh, which
\* then leaves the seed snapshot.
C4_AllFailedKeepsSnapshot ==
    [][awaited # <<>> /\ AllFailed(awaited[1]) => noaaData' = noaaData]_vars

(***************************************************************************)
(* The refresh interleaved with render ticks (SpecRender).  A tick can run *)
(* in every state without a pending continuation, so the snapshots ticks   *)
(* read are the ones the refresh steps leave.                              *)
(***************************************************************************)

\* a response without its unusable (null) last element
Usable(r) == IF r.kind = "nullLast" THEN Null ELSE r

\* the snapshot after a refresh that applied every raw update its responses
\* allow and recomputed the derived fields
WholeUpdate(d, resp) ==
    AfterAwait(d, Resp(Usable(resp.rSSN), Usable(resp.rProton),
                       Usable(resp.rFlare), Usable(resp.rKp),
                       Usable(resp.rWind), Usable(resp.rElectron))).data

\* C5: a render tick sees the snapshot of before a refresh or the one of
\* after it (all raw updates of the refresh together with the recomputed
\* derived fields), never one in between, whatever the responses are.
C5_TickSeesWholeSnapshot ==
    [][awaited # <<>> =>
        noaaData' \in {noaaData, WholeUpdate(noaaData, awaited[1])}]_vars

(***************************************************************************)
(* Properties of the content sequencer and the autopilot clocks            *)
(***************************************************************************)

\* C6: after any sequence of forward, backward and random advances, those
\* the autopilot fires included, the content index is one of 1..13 and the
\* media kind is one of the two kinds.
C6_ContentInRange ==
    currentIndex \in 1..13 /\ currentType \in Types

\* the autopilot's content timer has just fired, at its 500th tick, and drew
\* the last index and the other kind
C6_Witness ==
    /\ isAutopilot
    /\ autopilotTime = 500
    /\ autopilotContentTimer = 0
    /\ currentIndex = 13
    /\ currentType = "gif"

\* C7: 13 consecutive forward advances that start at index 1 end at index 1
\* with the media kind changed exactly once, and a forward advance changes
\* the kind exactly when it wraps from 13 to 1.
C7_ThirteenForward ==
    [][nextContent =>
        /\ (currentType' # currentType) <=> (currentIndex = 13)
        /\ (streak'.op = "next" /\ streak'.len = 13 /\ streak'.start.index = 1) =>
               /\ currentIndex' = 1
               /\ currentType' = Flip(streak'.start.type)
               /\ streak'.flips = 1]_vars

\* 13 forward advances in a row were made from index 1 of the second kind
C7_Witness ==
    /\ streak.op = "next"
    /\ streak.len = 13
    /\ streak.start = [index |-> 1, type |-> "gif"]

\* C8: a backward advance from index 1 moves to 13 and changes the media
\* kind; from an index of 2..13 it decrements the index and keeps the kind.
C8_BackwardMirrors ==
    [][prevContent =>
        IF currentIndex = 1
        THEN currentIndex' = 13 /\ currentType' = Flip(currentType)
        ELSE currentIndex' = currentIndex - 1 /\ currentType' = currentType]_vars

\* one backward advance was made from index 1 of the first kind: it wrapped
\* to 13 and changed the kind
C8_Witness ==
    /\ streak.op = "prev"
    /\ streak.len = 1
    /\ streak.start = [index |-> 1, type |-> "jpg"]
    /\ currentIndex = 13
    /\ currentType = "gif"

\* C9: every step that enters Autopilot mode leaves autopilotClock
\* (autopilotTime) and contentSwitchClock (autopilotContentTimer) at 0.
C9_EnteringAutopilotResetsClocks ==
    [][~isAutopilot /\ isAutopilot' =>
        autopilotTime' = 0 /\ autopilotContentTimer' = 0]_vars

\* Autopilot was entered again: the clocks are 0 while the camera still
\* stands where the third tick of an earlier flight put it
C9_Witness ==
    /\ isAutopilot
    /\ autopilotTime = 0
    /\ autopilotContentTimer = 0
    /\ cameraPosition = OrbitPosition(3)

\* C10: every step that enters Manual mode leaves all six move flags false.
C10_EnteringManualClearsMoveFlags ==
    [][isAutopilot /\ ~isAutopilot' => \A d \in Dirs : ~moveState'[d]]_vars


(***************************************************************************)
(* Properties of navigation (SpecNav)                                      *)
(***************************************************************************)

\* C11: the mode toggle, in either direction, leaves cameraPosition and
\* targetPosition as they are; it changes only the mode and, on entry to
\* Autopilot, the two autopilot clocks.
C11_ToggleKeepsCamera ==
    [][isAutopilot' # isAutopilot =>
        /\ cameraPosition' = cameraPosition
        /\ controlsTarget' = controlsTarget
        /\ isAutopilot' \/ UNCHANGED <<autopilotTime, autopilotContentTimer>>
        /\ UNCHANGED <<currentType, currentIndex, moveState, joystickActive,
                       heading, isDynamic, fx, noaaData, lightBase,
                       lightColor>>]_vars

\* Autopilot was left and entered again while the camera stayed where the
\* second tick of the earlier flight had put it
C11_Witness ==
    /\ isAutopilot
    /\ autopilotTime = 0
    /\ cameraPosition = OrbitPosition(2)
    /\ controlsTarget = OrbitTarget(2)

\* no coordinate differs by more than the largest step a manual frame makes
\* along an axis (two flags, moveSpeed each)
Near(a, b) == \A i \in 1..3 : Abs(a[i] - b[i]) <= 2 * moveSpeed

\* C12: switching from Manual to Autopilot and back keeps the camera
\* position continuous across ticks: the first Autopilot tick after the
\* switch leaves the camera near where it stood before the switch, and so
\* does every Manual tick, the first after switching back included.
C12_NoJumpAcrossModeSwitch ==
    [][/\ (isAutopilot /\ autopilotTime = 0 /\ autopilotTime' = 1) =>
              Near(cameraPosition, cameraPosition')
       /\ (~isAutopilot /\ ~isAutopilot') =>
              Near(cameraPosition, cameraPosition')]_vars


(***************************************************************************)
(* The content switch clock (SpecClock)                                    *)
(***************************************************************************)

\* the content timer has fired in the flight in progress and no tick
\* followed yet
Fired == isAutopilot /\ autopilotTime > 0 /\ autopilotContentTimer = 0

\* C13: in Autopilot contentSwitchClock grows by a fixed increment per tick
\* (0.016); a tick at which it reaches 8 triggers one random advance and
\* resets it to 0, a tick at which it does not leaves the content alone;
\* so it is in [0, 8) after every tick; and while the ticks of one stay in
\* Autopilot continue, an advance eventually fires.
C13_ContentSwitchClock ==
    /\ [](autopilotContentTimer \in 0..7999)
    /\ [][isAutopilot /\ autopilotTime' = autopilotTime + 1 =>
            IF autopilotContentTimer + 16 >= 8000
            THEN /\ autopilotContentTimer' = 0
                 /\ currentIndex' \in 1..13
                 /\ currentType' \in Types
            ELSE /\ autopilotContentTimer' = autopilotContentTimer + 16
                 /\ UNCHANGED <<currentIndex, currentType>>]_vars
    /\ (isAutopilot /\ autopilotTime = 0) ~> (~isAutopilot \/ Fired)

\* the tick after the one that fired: the clock counts from 0 again and the
\* content is the one the random advance drew
C13_Witness ==
    /\ isAutopilot
    /\ autopilotTime = 501
    /\ autopilotContentTimer = 16
    /\ currentIndex = 7
    /\ currentType = "gif"


(***************************************************************************)
(* Properties of the reactive tick (SpecRender, SpecPalette).  fx holds    *)
(* what the last writes to the scene handles were computed from, so a      *)
(* handle keeps its value exactly when its fields of fx stay as they are;  *)
(* dustStep, starStep and starPush are the increments the tick added to    *)
(* the dust rotation, the star rotation and the star position.             *)
(***************************************************************************)

\* C14: while the reactive animation is disabled, a render tick leaves the
\* light intensities, the frame's emissive colour and intensity, its rotation
\* and position, the dust opacity, the star opacity and the ambient intensity
\* as they were; the only change it makes to a visual channel is the
\* fallback star rotation increment of 0.0002.  In both navigation modes,
\* whatever the snapshot holds.
C14_DisabledTickFreezesChannels ==
    [][~isDynamic /\ (\E t \in Times : animate(t, MaxFlightTicks)) =>
        /\ \A c \in DOMAIN fx \ {"starStep", "dustStep", "starPush"} :
               fx'[c] = fx[c]
        /\ fx'.starStep = 10
        /\ fx'.dustStep = 0
        /\ fx'.starPush = "none"]_vars

\* the second tick of a flight ran with the animation disabled; the channels
\* still hold what the last enabled tick computed from Kp 2 and Bz 0 though
\* the snapshot has changed since
C14_Witness ==
    /\ ~isDynamic
    /\ isAutopilot
    /\ autopilotTime = 2
    /\ fx.starStep = 10
    /\ fx.breathSpeed = 13
    /\ fx.emissive = "003344"
    /\ noaaData.kp = 9
    /\ noaaData.bz = -100

\* C16: an enabled tick picks the frame palette by the first match of:
\* bz < -5 the red/orange alert palette; else bz > 5 blue/cyan; else
\* kIndex > 5 purple; else sunspotNumber > 100 gold; else the dim cyan.  So
\* bz < -5 gives the alert palette whatever kIndex and sunspotNumber are.
C16_PalettePriorityChain ==
    [][isDynamic /\ (\E t \in Times : animate(t, MaxFlightTicks)) =>
        LET d == noaaData
            alert == d.bz < -5
            calm == ~alert /\ d.bz > 5
            storm == ~alert /\ ~calm /\ d.kp > 5
            gold == ~alert /\ ~calm /\ ~storm /\ d.ssn.n > 100
        IN  /\ alert => fx'.emissive = "ff3300"
            /\ calm => fx'.emissive = "0066ff"
            /\ storm => fx'.emissive = "9933ff"
            /\ gold => fx'.emissive = "ffaa00"
            /\ ~(alert \/ calm \/ storm \/ gold) => fx'.emissive = "003344"]_vars

\* a tick has read a snapshot with Bz -100, Kp 9 and 150 sunspots and chose
\* the alert palette
C16_Witness ==
    /\ noaaData.bz = -100
    /\ noaaData.kp = 9
    /\ noaaData.ssn = JsNum(150)
    /\ fx.breathSpeed = 27
    /\ fx.starStep = 165
    /\ fx.emissive = "ff3300"

\* the least value of sin(..) * breathDepth + (1 - breathDepth / 2) over all
\* times, times 2 * BaseDen
LeastPulse(f) == 2 * BaseDen - f.breathDepth - 2 * Abs(f.breathDepth)

\* C18: an enabled tick never applies a negative intensity: whatever
\* snapshot the refresh stored and whatever the time, each light's
\* intensity, the frame's emissive intensity, the dust and star opacity and
\* the ambient intensity it writes are >= 0, the opacities also <= 1.
C18_NoNegativeIntensity ==
    /\ \A l \in DOMAIN fx.base :
           fx.base[l] = 0 \/ (fx.base[l] > 0 /\ LeastPulse(fx) >= 0)
    /\ EmissiveSwing(fx.emissive).mid - EmissiveSwing(fx.emissive).amp >= 0
    /\ fx.dustOpacity \in 0..BaseDen
    /\ 2 * RadDen - Abs(fx.starFlicker) >= 0
    /\ 2 * RadDen + Abs(fx.starFlicker) <= 5 * RadDen
    /\ fx.ambient >= 0


(***************************************************************************)
(* The animation toggle (SpecFX)                                           *)
(***************************************************************************)

\* a step recorded as a call of toggleFX
ToggleFXStep == streak'.op = "toggleFX" /\ streak' # streak

\* C15 as stated: toggling is idempotent, two toggles in succession leave
\* the same enabled/disabled state as one; and a toggle changes no scene
\* handle itself.
C15_ToggleIdempotent ==
    [][ToggleFXStep =>
        /\ streak'.len = 2 => isDynamic' = isDynamic
        /\ fx' = fx]_vars

\* C15 amended: toggling is an involution: one toggle inverts the
\* enabled/disabled state and two toggles in succession restore the state
\* from before them; a toggle changes no scene handle itself (nor anything
\* else), its effect appears at the next tick.
C15_ToggleInvolution ==
    [][ToggleFXStep =>
        /\ isDynamic' = ~isDynamic
        /\ streak'.len = 2 => isDynamic' = streak'.start.dynamic
        /\ fx' = fx
        /\ UNCHANGED <<noaaData, lightBase, lightColor, cameraPosition,
                       controlsTarget, isAutopilot, autopilotTime,
                       autopilotContentTimer, currentIndex, currentType,
                       moveState>>]_vars

\* two toggles in succession were made from the disabled state, after ticks
\* that ran the fallback on channels an enabled tick had set at instant 2
C15_Witness ==
    /\ streak.op = "toggleFX"
    /\ streak.len = 2
    /\ streak.start = [dynamic |-> FALSE]
    /\ ~isDynamic
    /\ fx.t = 2
    /\ fx.starStep = 10


(***************************************************************************)
(* Manual flight (SpecMove)                                                *)
(***************************************************************************)

VecSub(a, b) == <<a[1] - b[1], a[2] - b[2], a[3] - b[3]>>

\* C17: on a Manual tick, whatever move flags are active, the movement step
\* translates cameraPosition and targetPosition by the same vector, so
\* targetPosition - cameraPosition is the same after it as before; with no
\* flag active it changes neither.
C17_SameTranslation ==
    [][~isAutopilot /\ (\E t \in Times : animate(t, MaxFlightTicks)) =>
        /\ VecSub(cameraPosition', cameraPosition)
               = VecSub(controlsTarget', controlsTarget)
        /\ VecSub(controlsTarget', cameraPosition')
               = VecSub(controlsTarget, cameraPosition)
        /\ ~AnyFlag(moveState) =>
               cameraPosition' = cameraPosition /\ controlsTarget' = controlsTarget]_vars

\* a tick with the forward and up flags active has moved the camera and the
\* target from their start by one step ahead and one step up
C17_Witness ==
    /\ ~isAutopilot
    /\ moveState["forward"] /\ moveState["up"]
    /\ cameraPosition = <<0, PLAYER_HEIGHT + moveSpeed, 15 * PosDen - moveSpeed>>
    /\ controlsTarget = VecAdd(HomeTarget, <<0, moveSpeed, -moveSpeed>>)


(***************************************************************************)
(* Consistency of the snapshot and overlapping refreshes                   *)
(***************************************************************************)

\* C19: in every reachable state, the initial one and the one a refresh
\* that aborts part-way leaves included, the derived fields agree with the
\* raw fields: stormLevel = min(1, kIndex/9 + max(0, -bz)/20) and
\* radiationLevel = min(1, log10(protonFlux + 1)/5 + flareBoost), flareBoost
\* being 0.8 for a class that starts with X, 0.3 for M, else 0.
C19_DerivedMatchRaw ==
    /\ noaaData.stormLevel = StormLevel(noaaData.kp, noaaData.bz)
    /\ noaaData.radiationLevel
           = RadiationLevel(noaaData.protonFlux, noaaData.recentFlare)

\* C20: when refreshes overlap, the snapshot is never regressed: the
\* continuation of a call that started before one whose continuation has
\* already run does not overwrite the snapshot with its older data.
C20_NoRegression ==
    [][awaited # <<>> /\ calls.settling < calls.written =>
        noaaData' = noaaData]_vars


(***************************************************************************)
(* The sequencer's advances as inverses (SpecInverse)                      *)
(***************************************************************************)

\* C21: forward and backward advances are inverse to each other: from any
\* index of 1..13 and either media kind, nextContent followed by prevContent,
\* and prevContent followed by nextContent, leave the index and the kind
\* they started from, across the 13/1 wrap too (where the kind changes
\* twice).
C21_AdvancesAreInverse ==
    /\ currentIndex \in 1..13
    /\ streak.op \in {"next,prev", "prev,next"} =>
           /\ Content = streak.start
           /\ streak.flips = (IF \/ (streak.op = "next,prev" /\ currentIndex = 13)
                                 \/ (streak.op = "prev,next" /\ currentIndex = 1)
                              THEN 2 ELSE 0)

\* nextContent from 13.jpg wrapped to 1.gif and prevContent wrapped back:
\* the kind changed twice and the content is 13.jpg again
C21_Witness ==
    /\ streak.op = "next,prev"
    /\ streak.start = [index |-> 13, type |-> "jpg"]
    /\ streak.flips = 2
    /\ Content = [index |-> 13, type |-> "jpg"]


(***************************************************************************)
(* What a render tick writes besides the scene (SpecTick)                  *)
(***************************************************************************)

\* C22: a render tick in Manual mode leaves autopilotClock (autopilotTime),
\* contentSwitchClock (autopilotContentTimer), the content index and the
\* media kind unchanged; no render tick in either mode writes a field of
\* the telemetry snapshot; and the autopilot clocks advance, and the content
\* changes by a tick, only on Autopilot ticks.
C22_ManualTickKeepsClocks ==
    /\ [][Tick =>
            /\ noaaData' = noaaData
            /\ ~isAutopilot =>
                   UNCHANGED <<autopilotTime, autopilotContentTimer,
                               currentIndex, currentType>>
            /\ isAutopilot => autopilotTime' = autopilotTime + 1]_vars
    /\ [][(\/ autopilotTime' > autopilotTime
           \/ autopilotContentTimer' > autopilotContentTimer
           \/ Content' # Content) => isAutopilot /\ Tick]_vars

\* a flight ran past its first content switch (to 7.gif at tick 500) and was
\* left at tick 501; the refresh then stored Kp 9 and a Manual tick painted
\* the frame from it: the clocks and the content stand as the flight left
\* them
C22_Witness ==
    /\ ~isAutopilot
    /\ autopilotTime = 501
    /\ autopilotContentTimer = 16
    /\ Content = [index |-> 7, type |-> "gif"]
    /\ noaaData.kp = 9
    /\ fx.emissive = "9933ff"
    /\ cameraPosition = OrbitPosition(501)

====
